---- MODULE Spec2Model ----
(***************************************************************************)
(* A model of the nom-based JSON parser of src/src/parser.rs.              *)
(*                                                                         *)
(* Text is a sequence of one-character strings.  Every parser is an        *)
(* operator from the remaining input to an IResult: either                 *)
(* Ok(rest, out) or Err(at, kind), where `at` is the input slice the       *)
(* error carries and `kind` the nom ErrorKind.  The error type of every    *)
(* parser is nom's default (&str, ErrorKind), for which context(..) adds   *)
(* nothing, ParseError::or keeps the later error and append keeps the      *)
(* inner one.                                                              *)
(*                                                                         *)
(* Loops and recursive calls carry a depth budget n: a call that would     *)
(* need more than n nested calls or iterations yields kind "Diverged",     *)
(* which no combinator recovers from.                                      *)
(***************************************************************************)
EXTENDS Integers, Sequences, FiniteSets, TLC

VARIABLES
    input,   \* the text handed to the parser
    doc,     \* the document the text was written from, when there is one
    fault,   \* the syntax fault written into the text, when there is one
    tail,    \* text appended to the input for a second call
    called,  \* the parser applied to the input, "none" before the call
    result,  \* what that parser returned
    again    \* what the second call returned

vars == <<input, doc, fault, tail, called, result, again>>

\* ------------------------------------------------------------------ text

Quote == "\""
Backslash == "\\"

\* char::is_ascii_hexdigit
HexDigits ==
    {"0", "1", "2", "3", "4", "5", "6", "7", "8", "9",
     "a", "b", "c", "d", "e", "f", "A", "B", "C", "D", "E", "F"}

\* char::is_ascii_control, for the control characters a text here can hold
AsciiControl == {"\t", "\n", "\r", "\f"}

\* the characters multispace0 skips
Whitespace == {" ", "\t", "\r", "\n"}

Drop(s, k) == SubSeq(s, k + 1, Len(s))

Take(s, k) == SubSeq(s, 1, k)

StartsWith(s, t) == Len(s) >= Len(t) /\ Take(s, Len(t)) = t

\* the length of the longest prefix of s whose characters are all in set
RECURSIVE SpanIn(_, _)
SpanIn(s, set) ==
    IF s # <<>> /\ Head(s) \in set THEN 1 + SpanIn(Tail(s), set) ELSE 0

\* the length of the longest prefix of s with no character in set
RECURSIVE SpanNotIn(_, _)
SpanNotIn(s, set) ==
    IF s # <<>> /\ Head(s) \notin set THEN 1 + SpanNotIn(Tail(s), set) ELSE 0

\* --------------------------------------------------------------- IResult

NoOut == [t |-> "None", s |-> <<>>, n |-> 0, b |-> FALSE, a |-> <<>>, o |-> <<>>]

Ok(rest, out) == [ok |-> TRUE, rest |-> rest, out |-> out, kind |-> "Ok"]

Err(at, kind) == [ok |-> FALSE, rest |-> at, out |-> NoOut, kind |-> kind]

Diverged(r) == r.kind = "Diverged"

\* ------------------------------------------------------------ JsonValue

Str(s) == [t |-> "Str", s |-> s, n |-> 0, b |-> FALSE, a |-> <<>>, o |-> <<>>]

Boolean(b) == [t |-> "Boolean", s |-> <<>>, n |-> 0, b |-> b, a |-> <<>>, o |-> <<>>]

Null == [t |-> "Null", s |-> <<>>, n |-> 0, b |-> FALSE, a |-> <<>>, o |-> <<>>]

Num(n) == [t |-> "Num", s |-> <<>>, n |-> n, b |-> FALSE, a |-> <<>>, o |-> <<>>]

Array(a) == [t |-> "Array", s |-> <<>>, n |-> 0, b |-> FALSE, a |-> a, o |-> <<>>]

Object(o) == [t |-> "Object", s |-> <<>>, n |-> 0, b |-> FALSE, a |-> <<>>, o |-> o]

\* ------------------------------------------------------ nom primitives

\* bytes::complete::tag
tag(t, i) == IF StartsWith(i, t) THEN Ok(Drop(i, Len(t)), t) ELSE Err(i, "Tag")

\* character::complete::multispace0: never fails
multispace0(i) ==
    LET k == SpanIn(i, Whitespace) IN Ok(Drop(i, k), Take(i, k))

\* bytes::complete::take_till1 with the predicate of normal
\* take_till in place of take_till1: a run of no characters is a success
normal_take_till(i) ==
    LET k == SpanNotIn(i, {Backslash, Quote} \cup AsciiControl)
    IN  Ok(Drop(i, k), Take(i, k))

normal(i) ==
    LET k == SpanNotIn(i, {Backslash, Quote} \cup AsciiControl)
    IN  IF k = 0 THEN Err(i, "TakeTill1") ELSE Ok(Drop(i, k), Take(i, k))

\* the characters take_while_m_n accepts in parse_hex
HexOrU == HexDigits \cup {"u"}

HexLen == 5

\* branch::alt: the second parser runs where the first returned an error,
\* and its error is the one reported
alt(first, second) == IF first.ok \/ Diverged(first) THEN first ELSE second

\* the closing multispace0 of delimited(.., .., multispace0)
then_multispace0(r) == IF r.ok THEN Ok(multispace0(r.rest).rest, r.out) ELSE r

\* the output of r, once the closing parser returned c
closed(r, c) == IF c.ok THEN Ok(c.rest, r.out) ELSE c

\* the closing tag of delimited(.., .., tag(t))
then_tag(t, r) == IF r.ok THEN closed(r, tag(t, r.rest)) ELSE r

\* take_while_m_n(5, 5, |c| c.is_ascii_hexdigit() || c == 'u')
take_while_5_5(i) ==
    IF SpanIn(i, HexOrU) >= HexLen THEN Ok(Drop(i, HexLen), Take(i, HexLen))
    ELSE Err(i, "TakeWhileMN")

\* preceded(peek(p), q): q runs on the same text when p matched
preceded_peek(p, q) == IF p.ok THEN q ELSE p

\* preceded(peek(tag("u")), take_while_m_n(5, 5, ..))
parse_hex(i) == preceded_peek(tag(<<"u">>, i), take_while_5_5(i))

\* the one-character alternatives of escapable, in the order they are tried
SimpleEscapes == <<Quote, Backslash, "/", "b", "f", "n", "r", "t">>

\* alt over a list of one-character tags: the first that matches
RECURSIVE alt_tags(_, _)
alt_tags(ts, i) ==
    IF ts = <<>> THEN Err(i, "Tag")
    ELSE IF StartsWith(i, <<Head(ts)>>) THEN tag(<<Head(ts)>>, i)
    ELSE alt_tags(Tail(ts), i)

\* alt((tag("\""), ..., tag("t"), parse_hex)): the error is the last one
escapable(i) == alt(alt_tags(SimpleEscapes, i), parse_hex(i))

RECURSIVE escaped_loop(_, _, _)

\* escaped: what follows a successful normal or escapable, r
escaped_next(whole, r, n) ==
    IF Len(r.rest) = 0 THEN Ok(<<>>, whole) ELSE escaped_loop(whole, r.rest, n - 1)

\* escaped: after the control character, e is what escapable returned
escaped_escape(whole, e, n) == IF e.ok THEN escaped_next(whole, e, n) ELSE e

\* escaped: where normal returned an error at i
escaped_other(whole, i, n) ==
    IF Head(i) = Backslash
    THEN IF 1 >= Len(i) THEN Err(whole, "Escaped")
         ELSE escaped_escape(whole, escapable(Tail(i)), n)
    ELSE IF Len(whole) - Len(i) = 0 THEN Err(whole, "Escaped")
    ELSE Ok(Drop(whole, Len(whole) - Len(i)), Take(whole, Len(whole) - Len(i)))

\* escaped: r is what normal returned at i
escaped_normal(whole, i, r, n) ==
    IF r.ok THEN escaped_next(whole, r, n) ELSE escaped_other(whole, i, n)

\* bytes::complete::escaped(normal, '\\', escapable): the loop over i
escaped_loop(whole, i, n) ==
    IF n = 0 THEN Err(i, "Diverged")
    ELSE IF Len(i) = 0 THEN Ok(<<>>, whole)
    ELSE escaped_normal(whole, i, normal(i), n)

\* escaped(normal, '\\', escapable); one loop iteration per character of the
\* input is always enough
parse_str(i) == escaped_loop(i, i, Len(i) + 1)

\* delimited(tag("\""), parse_str, tag("\"")), after the opening quote
quoted(open) == IF open.ok THEN then_tag(<<Quote>>, parse_str(open.rest)) ELSE open

\* alt((tag("\"\""), delimited(tag("\""), parse_str, tag("\""))))
string(i) == alt(tag(<<Quote, Quote>>, i), quoted(tag(<<Quote>>, i)))

\* ------------------------------------------------------------ scalars

Digits == <<"0", "1", "2", "3", "4", "5", "6", "7", "8", "9">>

DigitSet == {Digits[k] : k \in DOMAIN Digits}

DigitValue(c) == (CHOOSE k \in DOMAIN Digits : Digits[k] = c) - 1

RECURSIVE DecimalValue(_)
DecimalValue(ds) ==
    IF ds = <<>> THEN 0
    ELSE 10 * DecimalValue(Take(ds, Len(ds) - 1)) + DigitValue(ds[Len(ds)])

\* number::complete::double, on texts whose only number characters are an
\* optional leading '-' and decimal digits
double(i) ==
    LET neg == StartsWith(i, <<"-">>)
        ds == IF neg THEN Tail(i) ELSE i
        k == SpanIn(ds, DigitSet)
    IN  IF k = 0 THEN Err(i, "Float")
        ELSE Ok(Drop(ds, k),
                IF neg THEN 0 - DecimalValue(Take(ds, k)) ELSE DecimalValue(Take(ds, k)))

\* alt((n_value(true, tag("true")), n_value(false, tag("false"))))
n_value(b, r) == IF r.ok THEN Ok(r.rest, b) ELSE r

boolean(i) ==
    alt(n_value(TRUE, tag(<<"t", "r", "u", "e">>, i)),
        n_value(FALSE, tag(<<"f", "a", "l", "s", "e">>, i)))

\* map(tag("null"), |_| JsonValue::Null)
null(i) == n_value(Null, tag(<<"n", "u", "l", "l">>, i))

\* delimited(multispace0, string, multispace0)
key(i) == then_multispace0(string(multispace0(i).rest))

\* --------------------------------------------------------- composites

\* HashMap::insert: a later value replaces the one already under the key
\* an insertion that keeps the entry a key already has
InsertIfAbsent(m, k, v) == [x \in DOMAIN m \cup {k} |-> IF x \in DOMAIN m THEN m[x] ELSE v]

Insert(m, k, v) == [x \in DOMAIN m \cup {k} |-> IF x = k THEN v ELSE m[x]]

\* .into_iter().map(|(k, v)| (String::from(k), v)).collect()
RECURSIVE collect_from(_, _)
collect_from(m, tuple_vec) ==
    IF tuple_vec = <<>> THEN m
    ELSE collect_from(Insert(m, Head(tuple_vec)[1], Head(tuple_vec)[2]), Tail(tuple_vec))

collect(tuple_vec) == collect_from(<<>>, tuple_vec)

\* map(p, JsonValue::Str) and the like, one per variant
as_str(r) == IF r.ok THEN Ok(r.rest, Str(r.out)) ELSE r

as_num(r) == IF r.ok THEN Ok(r.rest, Num(r.out)) ELSE r

as_boolean(r) == IF r.ok THEN Ok(r.rest, Boolean(r.out)) ELSE r

as_array(r) == IF r.ok THEN Ok(r.rest, Array(r.out)) ELSE r

as_object(r) == IF r.ok THEN Ok(r.rest, Object(r.out)) ELSE r

\* A call of one of the mutually recursive parsers, by name: run(name, ..)
\* is name(..) with the arguments that parser takes.
RECURSIVE run(_, _, _, _, _)

\* the parser handed to separated_list, p: the "element" of an array or the
\* "member" (key : value pair) of an object
item(p, i, n) == run(p, p, i, <<>>, n)

\* separated_list, after a separator: f is what the item parser returned on
\* the text after the separator that follows i
\* a list that keeps the separator it consumed when no item follows it
list_next_greedy(p, i, res, f, n) ==
    IF Diverged(f) THEN f
    ELSE IF ~f.ok THEN Ok(Tail(i), res)
    ELSE IF f.rest = i THEN Err(f.rest, "SeparatedList")
    ELSE run("separated_list_loop", p, f.rest, Append(res, f.out), n - 1)

list_next(p, i, res, f, n) ==
    IF Diverged(f) THEN f
    ELSE IF ~f.ok THEN Ok(i, res)
    ELSE IF f.rest = i THEN Err(f.rest, "SeparatedList")
    ELSE run("separated_list_loop", p, f.rest, Append(res, f.out), n - 1)

\* separated_list at i, the items so far in res: sep is what tag(",") returned
list_sep(p, i, res, sep, n) ==
    IF ~sep.ok THEN Ok(i, res)
    ELSE IF sep.rest = i THEN Err(sep.rest, "SeparatedList")
    ELSE list_next(p, i, res, item(p, sep.rest, n), n)

\* multi::separated_list(tag(","), f): the loop after the first item
separated_list_loop(p, i, res, n) ==
    IF n = 0 THEN Err(i, "Diverged") ELSE list_sep(p, i, res, tag(<<",">>, i), n)

\* separated_list at its start: f is what the item parser returned on i
list_first(p, i, f, n) ==
    IF Diverged(f) THEN f
    ELSE IF ~f.ok THEN Ok(i, <<>>)
    ELSE IF f.rest = i THEN Err(f.rest, "SeparatedList")
    ELSE run("separated_list_loop", p, f.rest, <<f.out>>, n)

\* multi::separated_list(tag(","), f)
separated_list(p, i, n) == list_first(p, i, item(p, i, n), n)

\* alt((object, array, string, double, boolean, null)) at j
value_alt(j, n) ==
    alt(as_object(run("object", "", j, <<>>, n - 1)),
    alt(as_array(run("array", "", j, <<>>, n - 1)),
    alt(as_str(string(j)),
    alt(as_num(double(j)),
    alt(as_boolean(boolean(j)),
        null(j))))))

\* delimited(multispace0, alt((..)), multispace0)
value(i, n) ==
    IF n = 0 THEN Err(i, "Diverged")
    ELSE then_multispace0(value_alt(multispace0(i).rest, n))

\* delimited(multispace0, value, multispace0)
element(i, n) == then_multispace0(run("value", "", multispace0(i).rest, <<>>, n))

\* separated_pair(key, tag(":"), element), after the key: k is what key returned
pair_value(k, v) == IF v.ok THEN Ok(v.rest, <<k.out, v.out>>) ELSE v

pair_colon(k, c, n) ==
    IF c.ok THEN pair_value(k, run("element", "", c.rest, <<>>, n)) ELSE c

pair_key(k, n) == IF k.ok THEN pair_colon(k, tag(<<":">>, k.rest), n) ELSE k

\* separated_pair(key, tag(":"), delimited(multispace0, value, multispace0))
member(i, n) == pair_key(key(i), n)

\* delimited(tag(open), list, tag(close)), after the opening tag
bracketed(p, open, close, n) ==
    IF open.ok THEN then_tag(close, separated_list(p, open.rest, n)) ELSE open

\* delimited(tag("["), separated_list(tag(","), element), tag("]"))
array(i, n) == bracketed("element", tag(<<"[">>, i), <<"]">>, n)

\* map(separated_list(..), |tuple_vec| ..collect()) inside the braces
collected(r) == IF r.ok THEN Ok(r.rest, collect(r.out)) ELSE r

\* delimited(tag("{"), map(separated_list(tag(","), member), collect), tag("}"))
object(i, n) == collected(bracketed("member", tag(<<"{">>, i), <<"}">>, n))

run(name, p, i, res, n) ==
    CASE name = "value" -> value(i, n)
      [] name = "array" -> array(i, n)
      [] name = "object" -> object(i, n)
      [] name = "element" -> element(i, n)
      [] name = "member" -> member(i, n)
      [] name = "separated_list_loop" -> separated_list_loop(p, i, res, n)

\* the nesting budget a text of this length is given
Budget(i) == Len(i) + 1

\* alt((map(object, JsonValue::Object), map(array, JsonValue::Array))) at j
\* a root that takes every alternative of value
root_alt_any(j, n) == value(j, n)

root_alt(j, n) == alt(as_object(object(j, n)), as_array(array(j, n)))

\* delimited(multispace0, alt((object, array)), multispace0)
\* a root that leaves the whitespace after the document where it is
root_untrimmed(i) == root_alt(multispace0(i).rest, Budget(i))

root(i) == then_multispace0(root_alt(multispace0(i).rest, Budget(i)))

\* value as a caller outside the parser applies it
value_of(i) == value(i, Budget(i))

\* ------------------------------------------------------------ documents
\* A document is the syntax a text is written from: a scalar with its
\* literal, an array of documents, or an object of key : document members
\* (keys may repeat).

MaxNodes == 3

ScalarDoc(t, lit) == [t |-> t, lit |-> lit, kids |-> <<>>, keys |-> <<>>]

ArrayDoc(kids) == [t |-> "Array", lit |-> <<>>, kids |-> kids, keys |-> <<>>]

ObjectDoc(keys, kids) == [t |-> "Object", lit |-> <<>>, kids |-> kids, keys |-> keys]

NoDoc == ScalarDoc("None", <<>>)

ScalarDocs ==
    {ScalarDoc("Str", <<Quote, "a", Quote>>),
     ScalarDoc("Str", <<Quote, Quote>>),
     ScalarDoc("Num", <<"1">>),
     ScalarDoc("Boolean", <<"t", "r", "u", "e">>),
     ScalarDoc("Null", <<"n", "u", "l", "l">>)}

\* key literals
KeyTexts == {<<Quote, "a", Quote>>, <<Quote, "b", Quote>>}

RECURSIVE DocsOfSize(_)
RECURSIVE Forests(_)

\* the sequences of documents with n nodes in all
Forests(n) ==
    IF n = 0 THEN {<<>>}
    ELSE UNION {{<<d>> \o f : d \in DocsOfSize(k), f \in Forests(n - k)} : k \in 1..n}

\* the documents with exactly n nodes
DocsOfSize(n) ==
    IF n = 1 THEN ScalarDocs \cup {ArrayDoc(<<>>), ObjectDoc(<<>>, <<>>)}
    ELSE {ArrayDoc(f) : f \in Forests(n - 1)}
         \cup UNION {{ObjectDoc(ks, f) : ks \in [1..Len(f) -> KeyTexts]} : f \in Forests(n - 1)}

Docs == UNION {DocsOfSize(n) : n \in 1..MaxNodes}

IsContainer(d) == d.t \in {"Array", "Object"}

ContainerDocs == {d \in Docs : IsContainer(d)}

\* whitespace written around every structural token
Pads == {<<>>, <<" ">>, <<"\t", "\r", "\n">>}

RECURSIVE Concat(_)
Concat(texts) == IF texts = <<>> THEN <<>> ELSE Head(texts) \o Concat(Tail(texts))

\* texts joined by a padded comma
RECURSIVE Join(_, _)
Join(texts, pad) ==
    IF texts = <<>> THEN <<>>
    ELSE IF Len(texts) = 1 THEN texts[1]
    ELSE texts[1] \o pad \o <<",">> \o pad \o Join(Tail(texts), pad)

MemberText(k, v, pad) == k \o pad \o <<":">> \o pad \o v

Bracketed(open, inner, close, pad) == <<open>> \o pad \o inner \o pad \o <<close>>

\* the text of a document
RECURSIVE Render(_, _)
Render(d, pad) ==
    IF d.t = "Array"
    THEN Bracketed("[", Join([j \in DOMAIN d.kids |-> Render(d.kids[j], pad)], pad), "]", pad)
    ELSE IF d.t = "Object"
    THEN Bracketed("{", Join([j \in DOMAIN d.kids |->
                        MemberText(d.keys[j], Render(d.kids[j], pad), pad)], pad), "}", pad)
    ELSE d.lit

\* the text of a whole document, whitespace before and after it
RenderDocument(d, pad) == pad \o Render(d, pad) \o pad

\* a text with one syntax fault: the fault's place is held by "@" until the
\* faulty character is written there
Hole == "@"

RECURSIVE FaultSites(_, _, _)
\* the texts of d with the hole at one place where a fault of this kind can
\* be written: after the last item of an array or object ("comma"), or just
\* before the opening quote of an object key ("stray")
FaultSites(d, pad, kind) ==
    IF ~IsContainer(d) THEN {}
    ELSE LET open == IF d.t = "Array" THEN "[" ELSE "{"
             close == IF d.t = "Array" THEN "]" ELSE "}"
             keyOf(j) == IF d.t = "Array" THEN <<>> ELSE d.keys[j] \o pad \o <<":">> \o pad
             plain == [j \in DOMAIN d.kids |-> keyOf(j) \o Render(d.kids[j], pad)]
             inner == Join(plain, pad)
             here == IF kind = "comma"
                     THEN {Bracketed(open, IF inner = <<>> THEN <<Hole>>
                                           ELSE inner \o pad \o <<Hole>>, close, pad)}
                     ELSE IF d.t = "Object"
                     THEN {Bracketed(open,
                                     Join([plain EXCEPT ![j] = <<Hole>> \o plain[j]], pad),
                                     close, pad) : j \in DOMAIN d.kids}
                     ELSE {}
             below == UNION {{Bracketed(open,
                                        Join([plain EXCEPT ![j] = keyOf(j) \o t], pad),
                                        close, pad) : t \in FaultSites(d.kids[j], pad, kind)}
                             : j \in DOMAIN d.kids}
         IN  here \cup below

RECURSIVE IndexOf(_, _)
IndexOf(s, c) == IF s = <<>> \/ Head(s) = c THEN 1 ELSE 1 + IndexOf(Tail(s), c)

\* the character a fault of this kind writes
FaultChar(kind) == IF kind = "comma" THEN "," ELSE "1"

Fill(s, c) == [j \in DOMAIN s |-> IF s[j] = Hole THEN c ELSE s[j]]

NoFault == [kind |-> "none", at |-> 0]

NotCalled == Err(<<>>, "None")

\* ------------------------------------------------------- specifications

Start(text, d, f) ==
    /\ input = text
    /\ doc = d
    /\ fault = f
    /\ tail = <<>>
    /\ called = "none"
    /\ result = NotCalled
    /\ again = NotCalled

\* one call of a parser on the input
Call(name, r) ==
    /\ called = "none"
    /\ called' = name
    /\ result' = r
    /\ UNCHANGED <<input, doc, fault, tail, again>>

CallRoot == Call("root", root(input))

CallValue == Call("value", value_of(input))

\* the input from its first character that is not whitespace
Trimmed(i) == multispace0(i).rest

CallArray == Call("array", array(Trimmed(input), Budget(input)))

CallObject == Call("object", object(Trimmed(input), Budget(input)))

\* separated_list as array or object calls it: on what follows the opening
\* bracket or brace of the input
CallSeparatedList ==
    Call("separated_list",
         separated_list(IF StartsWith(Trimmed(input), <<"{">>) THEN "member" ELSE "element",
                        Drop(Trimmed(input), 1), Budget(input)))

CallKey == Call("key", key(input))

CallString == Call("string", string(input))

CallParseStr == Call("parse_str", parse_str(input))

CallEscapable == Call("escapable", escapable(input))

CallParseHex == Call("parse_hex", parse_hex(input))

\* the input as the only element of an array, handed to root
CallRootAsElement == Call("root_as_element", root(<<"[">> \o input \o <<"]">>))

\* the input as the value of the only member of an object, handed to root
CallRootAsMember ==
    Call("root_as_member", root(<<"{", Quote, "a", Quote, ":">> \o input \o <<"}">>))

\* text that may follow a document
Tails ==
    {<<"x">>, <<"]">>, <<"}">>, <<",", "1">>, <<"[", "]">>, <<Quote>>, <<" ", "x">>}

\* root once more, on the input followed by a tail
CallRootWithTail ==
    /\ called = "root"
    /\ \E s \in Tails :
        /\ tail' = s
        /\ again' = root(input \o s)
    /\ called' = "root_tail"
    /\ UNCHANGED <<input, doc, fault, result>>

\* string once more, on the payload it returned, put between quotes again
Requote(p) == <<Quote>> \o p \o <<Quote>>

ReparseString ==
    /\ called = "string"
    /\ result.ok
    /\ again' = string(Requote(result.out))
    /\ called' = "string_again"
    /\ UNCHANGED <<input, doc, fault, tail, result>>

\* -- well-formed documents, written with every padding

InitDoc == \E d \in Docs, pad \in Pads : Start(RenderDocument(d, pad), d, NoFault)

NextDoc ==
    \/ CallRoot
    \/ CallValue
    \/ CallRootAsElement
    \/ CallRootAsMember
    \/ CallRootWithTail

SpecDoc == InitDoc /\ [][NextDoc]_vars

\* -- documents with one syntax fault

FaultKinds == {"comma", "stray"}

InitFault ==
    \E d \in ContainerDocs, pad \in Pads, kind \in FaultKinds :
        \E t \in FaultSites(d, pad, kind) :
            LET text == pad \o t \o pad
            IN  Start(Fill(text, FaultChar(kind)), d,
                      [kind |-> kind, at |-> IndexOf(text, Hole)])

NextFault ==
    \/ CallRoot
    \/ CallValue
    \/ CallArray
    \/ CallObject
    \/ CallSeparatedList

SpecFault == InitFault /\ [][NextFault]_vars

\* -- string literals and what surrounds them, character by character

MaxBody == 4

StrChars == {Quote, Backslash, "u", "1", "g", "n", "\t"}

\* the texts of at most n characters of chars
TextsUpTo(n, chars) == UNION {[1..k -> chars] : k \in 0..n}

StrPrefixes == {<<>>, <<Quote>>, <<Quote, Backslash>>, <<Quote, Backslash, "u">>}

StrSuffixes == {<<>>, <<Quote>>}

InitString ==
    \E p \in StrPrefixes, b \in TextsUpTo(MaxBody, StrChars), s \in StrSuffixes :
        Start(p \o b \o s, NoDoc, NoFault)

NextString ==
    \/ CallString
    \/ CallParseStr
    \/ CallEscapable
    \/ CallParseHex
    \/ CallKey
    \/ ReparseString

SpecString == InitString /\ [][NextString]_vars

\* -- any text, character by character, and the well-formed documents

MaxLen == 4

TextChars == {"[", "]", "{", "}", ",", ":", " ", Quote, Backslash, "a", "1"}

InitText ==
    \/ \E t \in TextsUpTo(MaxLen, TextChars) : Start(t, NoDoc, NoFault)
    \/ InitDoc

NextText ==
    \/ CallRoot
    \/ CallValue
    \/ CallParseStr

SpecText == InitText /\ [][NextText]_vars

\* ------------------------------------------------------------- claims

IsScalar(d) == d.t \in {"Str", "Num", "Boolean", "Null"}

IsSuffix(s, t) == Len(s) <= Len(t) /\ Drop(t, Len(t) - Len(s)) = s

NoLeadingWhitespace(s) == s = <<>> \/ Head(s) \notin Whitespace

\* the payload the parser gives a string literal
PayloadOf(lit) == string(lit).out

\* the last member of an object document written with this key
LastWith(d, k) ==
    CHOOSE j \in DOMAIN d.keys :
        /\ d.keys[j] = k
        /\ \A h \in DOMAIN d.keys : h > j => d.keys[h] # k

\* the tree a document stands for: the same nesting, the elements in their
\* order, and under each key the value of the last member written with it
RECURSIVE Mirror(_)
Mirror(d) ==
    CASE d.t = "Str" -> Str(PayloadOf(d.lit))
      [] d.t = "Num" -> Num(DecimalValue(d.lit))
      [] d.t = "Boolean" -> Boolean(d.lit = <<"t", "r", "u", "e">>)
      [] d.t = "Null" -> Null
      [] d.t = "Array" -> Array([j \in DOMAIN d.kids |-> Mirror(d.kids[j])])
      [] d.t = "Object" ->
            Object([k \in {PayloadOf(d.keys[j]) : j \in DOMAIN d.keys} |->
                        Mirror(d.kids[LastWith(d,
                            CHOOSE lit \in {d.keys[j] : j \in DOMAIN d.keys} :
                                PayloadOf(lit) = k)])])

\* C1: root parses every well-formed object or array document, whatever
\* whitespace surrounds its structural tokens: it succeeds, leaves nothing,
\* and returns the tree the document stands for.
C1_RootParsesEveryDocument ==
    (called = "root" /\ IsContainer(doc)) =>
        /\ result.ok
        /\ result.rest = <<>>
        /\ result.out = Mirror(doc)

\* C2: root fails on every bare scalar, after leading whitespace or not,
\* although value succeeds on that same text and root accepts the same
\* scalar as the element of an array and as the value of an object member.
C2_RootRejectsScalars ==
    IsScalar(doc) =>
        /\ called = "root" => ~result.ok
        /\ called = "value" =>
            /\ result.ok
            /\ result.rest = <<>>
            /\ result.out.t = doc.t
        /\ called = "root_as_element" =>
            /\ result.ok
            /\ result.out.t = "Array"
            /\ result.out.a = <<value_of(input).out>>
        /\ called = "root_as_member" =>
            /\ result.ok
            /\ result.out.t = "Object"
            /\ DOMAIN result.out.o = {<<"a">>}
            /\ result.out.o[<<"a">>] = value_of(input).out

C2_Witness ==
    /\ called = "root"
    /\ doc.t = "Num"
    /\ Head(input) \in Whitespace
    /\ ~result.ok
    /\ value_of(input).ok

\* C6: in the mapping root returns for an object document there is one
\* entry per key text, and the entry of a key holds the value of the last
\* member written with that key.
C6_LastMemberWins ==
    (called = "root" /\ doc.t = "Object" /\ result.ok) =>
        /\ DOMAIN result.out.o = {PayloadOf(doc.keys[j]) : j \in DOMAIN doc.keys}
        /\ \A j \in DOMAIN doc.keys :
               result.out.o[PayloadOf(doc.keys[j])] = Mirror(doc.kids[LastWith(doc, doc.keys[j])])

C6_Witness ==
    /\ called = "root"
    /\ result.ok
    /\ doc.t = "Object"
    /\ Len(doc.keys) = 2
    /\ doc.keys[1] = <<Quote, "a", Quote>>
    /\ doc.keys[2] = <<Quote, "a", Quote>>
    /\ doc.kids[1].t = "Num"
    /\ doc.kids[2].t = "Null"
    /\ Cardinality(DOMAIN result.out.o) = 1
    /\ result.out.o[<<"a">>] = Null

\* C10: root parses a prefix.  Where root accepts a whole document, it
\* accepts the document followed by any text that does not begin with
\* whitespace, returns the same tree and leaves exactly that text; what a
\* successful root leaves is a suffix of its input that does not begin with
\* whitespace.
C10_RootParsesAPrefix ==
    /\ (called = "root_tail" /\ result.ok /\ result.rest = <<>> /\ NoLeadingWhitespace(tail)) =>
        /\ again.ok
        /\ again.out = result.out
        /\ again.rest = tail
    /\ (called = "root" /\ result.ok) =>
        /\ IsSuffix(result.rest, input)
        /\ NoLeadingWhitespace(result.rest)
    /\ (called = "root_tail" /\ again.ok) =>
        /\ IsSuffix(again.rest, input \o tail)
        /\ NoLeadingWhitespace(again.rest)

C10_Witness ==
    /\ called = "root_tail"
    /\ doc.t = "Object"
    /\ Len(doc.kids) = 1
    /\ result.ok
    /\ result.rest = <<>>
    /\ tail = <<",", "1">>
    /\ again.ok
    /\ again.rest = tail

\* C5: on a document with a stray digit before an object key, root fails
\* and the error it returns is positioned at the stray digit, wherever the
\* object is nested.
C5_ErrorAtOffendingCharacter ==
    (called = "root" /\ fault.kind = "stray") =>
        /\ ~result.ok
        /\ result.rest = Drop(input, fault.at - 1)

\* C7: a comma after the last item of an array or object, or alone in an
\* empty one, is never accepted: root, value, array and object fail on the
\* document, and separated_list leaves that comma unconsumed.
C7_TrailingCommaRejected ==
    fault.kind = "comma" =>
        /\ called \in {"root", "value", "array", "object"} => ~result.ok
        /\ called = "separated_list" =>
            /\ result.ok
            /\ Len(result.rest) > Len(input) - fault.at
            /\ IsSuffix(result.rest, input)

C7_Witness ==
    /\ called = "root"
    /\ fault.kind = "comma"
    /\ input = <<"[", "[", "1", ",", "]", "]">>
    /\ fault.at = 4
    /\ ~result.ok
    /\ result.kind = "Tag"

SimpleEscapeSet == {SimpleEscapes[j] : j \in DOMAIN SimpleEscapes}

\* every backslash of s opens one of the eight simple escapes, or a u and
\* exactly four hexadecimal digits
RECURSIVE ValidEscapes(_)
ValidEscapes(s) ==
    IF s = <<>> THEN TRUE
    ELSE IF Head(s) # Backslash THEN ValidEscapes(Tail(s))
    ELSE /\ Len(s) >= 2
         /\ \/ s[2] \in SimpleEscapeSet /\ ValidEscapes(Drop(s, 2))
            \/ /\ s[2] = "u"
               /\ Len(s) >= 6
               /\ \A j \in 3..6 : s[j] \in HexDigits
               /\ ValidEscapes(Drop(s, 6))

\* C4: string accepts a literal only if every backslash in it opens a valid
\* escape: one of the eight simple ones, or u and four hexadecimal digits.
C4_OnlyValidEscapes ==
    (called = "string" /\ result.ok) => ValidEscapes(result.out)

\* C3: for every literal string accepts, the empty one included, and for
\* every literal key accepts, the payload returned is the text strictly
\* between the opening and the closing quote, escapes kept as written.
C3_PayloadBetweenQuotes ==
    /\ (called = "string" /\ result.ok) => input = Requote(result.out) \o result.rest
    /\ (called = "key" /\ result.ok) => StartsWith(Trimmed(input), Requote(result.out))

\* C8: the payload of an accepted literal, put between quotes again, is
\* accepted by string whole and gives the same payload.
C8_RoundTrip ==
    called = "string_again" =>
        /\ again.ok
        /\ again.rest = <<>>
        /\ again.out = result.out

\* the outcomes of a parser that returns
Returned == {"Ok", "Tag", "Escaped", "TakeTill1", "TakeWhileMN", "Float", "SeparatedList"}

\* C9: root, value and parse_str return on every input: no recursion and no
\* loop of theirs runs more steps than the input has characters.
C9_ParsersReturn ==
    called # "none" => result.kind \in Returned

C9_Witness ==
    /\ called = "root"
    /\ input = <<"[", "[", "[", "]", "]", "]">>
    /\ result.ok
    /\ result.rest = <<>>

====
